---- MODULE Spec2Model ----
(***************************************************************************)
(* Model of the request -> stream -> SSE adapter VercelAgentHandler of      *)
(* api/agents/_base.py, of do_POST of the legacy chat handlers             *)
(* (api/agents/agentic_chat.py, weather_chat.py), and of the generators     *)
(* start_long_running_task and write_document of the agents package.  Each  *)
(* program has its own variables and its own specification.                 *)
(*                                                                          *)
(* Text is modelled as a sequence of tokens.  The characters that matter    *)
(* to JSON escaping and to SSE framing (newline, double quote, backslash)   *)
(* are always tokens of their own; any other run of characters may be one   *)
(* token.  An optional value (a dict key that may be missing, a local that  *)
(* may be unset) is a sequence of length 0 or 1.                            *)
(***************************************************************************)
EXTENDS Naturals, Sequences, FiniteSets

VARIABLES
    pc,               \* position of each invocation of handle_request
    event,            \* the request envelope handed to the invocation
    body,             \* local `body` of handle_request after decoding
    run_input,        \* local `run_input`: the validated message list
    messages,         \* local `messages` of _stream_agent_response
    response_chunks,  \* local `response_chunks`: list of formatted frames
    calls,            \* the calls made to agent.run_stream, in order
    rt,               \* the StreamedRunResult handed out by the runtime
    produced,         \* the chunks the runtime has yielded so far
    final,            \* the runtime's final aggregate result, once awaited
    caught,           \* the exception the except clause of the stream caught
    escaped,          \* the exception the outer except of handle_request caught
    response,         \* the HTTP response returned to the host
    \* handler.do_POST of agentic_chat.py and weather_chat.py
    lpc,              \* position of the do_POST call
    module,           \* the module whose handler serves the request
    request,          \* the HTTP request: Content-Length header and body
    request_messages, \* local `messages` of do_POST
    user_message,     \* local `user_message` of do_POST
    agent_runs,       \* the prompts agent.run was called with, in order
    sent,             \* the status codes sent to the client, in order
    \* start_long_running_task of agentic_generative_ui.py
    tpc,              \* position of the generator
    task_type,        \* its argument
    steps,            \* local `steps`: the list of ProgressStep
    step_i,           \* loop variable `i` of the outer loop
    progress_n,       \* position of the inner loop in [25, 50, 75, 100]
    overall_progress, \* local `overall_progress`
    yielded,          \* the values of the events yielded so far, in order
    \* write_document of predictive_state_updates.py, per call in progress
    state,            \* ctx.deps.state: the DocumentState shared by the calls
    wpc,              \* position of each writer's generator
    document,         \* argument `document` of the call
    current_doc,      \* local `current_doc`
    diffs,            \* local `diffs`
    diff_n,           \* position of `for diff in diffs`
    char_i,           \* loop variable `i` of the typing loop
    temp_doc,         \* local `temp_doc`
    doc_events,       \* the values of the events the call has yielded
    at_call,          \* the shared state as it was when the call began
    writes,           \* the number of calls each writer has begun
    completions       \* the number of calls that ran to their last event

legacyVars == <<lpc, module, request, request_messages, user_message, agent_runs, sent>>

taskVars == <<tpc, task_type, steps, step_i, progress_n, overall_progress, yielded>>

\* the variables of the other programs of the repository, which
\* VercelAgentHandler does not touch
docVars == <<state, wpc, document, current_doc, diffs, diff_n, char_i, temp_doc,
             doc_events, at_call, writes, completions>>

otherVars == <<legacyVars, taskVars, docVars>>

vars == <<pc, event, body, run_input, messages, response_chunks, calls, rt,
          produced, final, caught, escaped, response, otherVars>>

--------------------------------------------------------------------------
(* Bounds *)

MaxMsgs == 2      \* longest message list in a request body
MaxChunks == 2    \* most chunks one agent stream yields

\* The invocations of one handler (one VercelAgentHandler, one agent).  Every
\* local of handle_request and _stream_agent_response is a function of the
\* invocation; Spec runs the first of them.
Inv == {1, 2}

\* The calls of write_document in progress on the one DocumentState of the app
Writers == {1, 2}

MaxWrites == 2    \* most calls of write_document one writer makes

--------------------------------------------------------------------------
(* Optional values *)

None == <<>>
Some(x) == <<x>>
IsSome(o) == Len(o) = 1
Val(o) == o[1]

--------------------------------------------------------------------------
(* Sample texts *)

NL == "\n"
QUOTE == "\""
BSLASH == "\\"

TxtHi == <<"Hi">>
TxtTwoLines == <<"Yo", NL, NL, QUOTE, "x", QUOTE>>

--------------------------------------------------------------------------
(* JSON values and json.dumps *)

JStr(s) == [k |-> "str", s |-> s, m |-> <<>>]
JNum(lit) == [k |-> "num", s |-> <<lit>>, m |-> <<>>]
JNull == [k |-> "null", s |-> <<>>, m |-> <<>>]
JObj(members) == [k |-> "obj", s |-> <<>>, m |-> members]
Member(key, val) == [key |-> key, val |-> val]

\* a python value that is a str or None
JOptStr(o) == IF IsSome(o) THEN JStr(Val(o)) ELSE JNull

\* json.dumps writes a string's newline, quote and backslash escaped
\* no character is escaped
EscapeChar_Mut(t) == <<t>>

EscapeChar(t) ==
    IF t = NL THEN <<BSLASH, "n">>
    ELSE IF t = QUOTE THEN <<BSLASH, QUOTE>>
    ELSE IF t = BSLASH THEN <<BSLASH, BSLASH>>
    ELSE <<t>>

RECURSIVE Escape(_)
Escape(s) == IF s = <<>> THEN <<>> ELSE EscapeChar(Head(s)) \o Escape(Tail(s))

RECURSIVE JsonDumps(_)
RECURSIVE DumpMembers(_)
JsonDumps(v) ==
    CASE v.k = "str"  -> <<QUOTE>> \o Escape(v.s) \o <<QUOTE>>
      [] v.k = "num"  -> v.s
      [] v.k = "null" -> <<"null">>
      [] v.k = "obj"  -> <<"{">> \o DumpMembers(v.m) \o <<"}">>

DumpMembers(ms) ==
    IF ms = <<>> THEN <<>>
    ELSE <<QUOTE, Head(ms).key, QUOTE, ": ">> \o JsonDumps(Head(ms).val)
         \o (IF Len(ms) > 1 THEN <<", ">> ELSE <<>>) \o DumpMembers(Tail(ms))

\* ''.join(list of str)
RECURSIVE Join(_)
Join(ss) == IF ss = <<>> THEN <<>> ELSE Head(ss) \o Join(Tail(ss))

--------------------------------------------------------------------------
(* VercelAgentHandler._format_sse_event and _error_response *)

_format_sse_event(event_data) == <<"data: ">> \o JsonDumps(event_data) \o <<NL, NL>>

\* the error response without the CORS header
_error_response_Mut(status_code, message) ==
    [statusCode |-> status_code,
     headers |-> {<<"Content-Type", "application/json">>},
     body |-> JsonDumps(JObj(<<Member("error", JStr(message))>>))]

_error_response(status_code, message) ==
    [statusCode |-> status_code,
     headers |-> {<<"Content-Type", "application/json">>,
                  <<"Access-Control-Allow-Origin", "*">>},
     body |-> JsonDumps(JObj(<<Member("error", JStr(message))>>))]

\* the event dictionaries _stream_agent_response builds
StartedEvent ==
    JObj(<<Member("type", JStr(<<"agent_response">>)),
           Member("data", JObj(<<Member("status", JStr(<<"started">>))>>))>>)

ChunkEvent(chunk, timestamp) ==
    JObj(<<Member("type", JStr(<<"agent_response">>)),
           Member("data", JObj(<<Member("content", JStr(chunk)),
                                 Member("timestamp", JOptStr(timestamp))>>))>>)

FinalEvent(data, cost) ==
    JObj(<<Member("type", JStr(<<"agent_response">>)),
           Member("data", JObj(<<Member("content", JStr(data)),
                                 Member("status", JStr(<<"completed">>)),
                                 Member("cost", IF IsSome(cost) THEN JNum(Val(cost))
                                                ELSE JNull)>>))>>)

ErrorEvent(message) ==
    JObj(<<Member("type", JStr(<<"error">>)),
           Member("data", JObj(<<Member("message", JStr(message))>>))>>)

\* the streamed response without the cache header
StreamingResponse_Mut(chunks) ==
    [statusCode |-> 200,
     headers |-> {<<"Content-Type", "text/event-stream">>,
                  <<"Connection", "keep-alive">>,
                  <<"Access-Control-Allow-Origin", "*">>,
                  <<"Access-Control-Allow-Headers", "Content-Type">>,
                  <<"Access-Control-Allow-Methods", "POST, OPTIONS">>},
     body |-> Join(chunks),
     isBase64Encoded |-> FALSE]

StreamingResponse(chunks) ==
    [statusCode |-> 200,
     headers |-> {<<"Content-Type", "text/event-stream">>,
                  <<"Cache-Control", "no-cache">>,
                  <<"Connection", "keep-alive">>,
                  <<"Access-Control-Allow-Origin", "*">>,
                  <<"Access-Control-Allow-Headers", "Content-Type">>,
                  <<"Access-Control-Allow-Methods", "POST, OPTIONS">>},
     body |-> Join(chunks),
     isBase64Encoded |-> FALSE]

--------------------------------------------------------------------------
(* Request envelopes *)

\* a message dict of the request: 'role' and 'content' may each be missing
Msg(role, content) == [role |-> role, content |-> content, dict |-> TRUE]

\* a message that validation turned into a message object (UserMessage):
\* it has the attributes role and content and no method get
ObjMsg(role, content) == [role |-> Some(role), content |-> Some(content), dict |-> FALSE]

MsgRoles == {None, Some("user"), Some("assistant"), Some("system"), Some("tool")}
MsgContents == {None, Some(TxtTwoLines)}
Msgs == {Msg(r, c) : r \in MsgRoles, c \in MsgContents}

SeqsUpTo(S, n) == UNION {[1..k -> S] : k \in 0..n}
MsgLists == SeqsUpTo(Msgs, MaxMsgs)

\* what a body text says: not JSON at all, JSON that is no run request
\* ('[]', '{}'), or a run request {"messages": [...]}
PNotJson == [json |-> FALSE, obj |-> FALSE, msgs |-> None]
PArray == [json |-> TRUE, obj |-> FALSE, msgs |-> None]
PEmptyObj == [json |-> TRUE, obj |-> TRUE, msgs |-> None]
PRun(ms) == [json |-> TRUE, obj |-> TRUE, msgs |-> Some(ms)]

\* the value under the envelope's 'body' key:
\*   text        a str holding the payload text
\*   b64         a str holding the base64 of the payload's UTF-8 bytes
\*   b64_badutf8 a str holding the base64 of bytes that are not UTF-8
\*   badb64      a str that is not base64 (wrong padding)
\*   none        the python value None
Body(kind, payload) == [kind |-> kind, payload |-> payload]

Envelope(method, b, flag) == [httpMethod |-> method, body |-> b, isBase64Encoded |-> flag]

PostMethods == {None, Some("POST")}
OtherMethods == {Some("GET"), Some("OPTIONS"), Some("post")}

SmallPayloads == {PNotJson, PArray, PEmptyObj, PRun(<<>>), PRun(<<Msg(Some("user"), Some(TxtHi))>>)}

\* run requests whose messages are not all dicts
ObjPayloads == {PRun(<<ObjMsg("user", TxtHi)>>),
                PRun(<<Msg(Some("user"), Some(TxtHi)), ObjMsg("user", TxtHi)>>)}

Envelopes ==
    {Envelope(Some("POST"), Some(Body("text", PRun(ms))), FALSE) : ms \in MsgLists}
    \cup {Envelope(m, Some(Body("text", p)), FALSE) : m \in PostMethods \cup OtherMethods,
                                                       p \in SmallPayloads}
    \cup {Envelope(Some("POST"), Some(Body("text", p)), FALSE) : p \in ObjPayloads}
    \cup {Envelope(m, Some(Body("b64", p)), f) : m \in PostMethods, p \in SmallPayloads,
                                                  f \in BOOLEAN}
    \cup {Envelope(m, Some(Body(k, PNotJson)), f) : m \in PostMethods \cup OtherMethods,
                                                     k \in {"b64_badutf8", "badb64", "none"},
                                                     f \in BOOLEAN}
    \cup {Envelope(m, None, f) : m \in PostMethods \cup OtherMethods, f \in BOOLEAN}

--------------------------------------------------------------------------
(* Exception messages, str(e) *)

ErrBadB64 == <<"Incorrect padding">>
ErrBadUtf8 == <<"'utf-8' codec can't decode byte 0xff in position 0: invalid start byte">>
ErrB64None == <<"argument should be a bytes-like object or ASCII string, not 'NoneType'">>
ErrJson == <<"Expecting value: line 1 column 1 (char 0)">>
ErrJsonNone == <<"the JSON object must be str, bytes or bytearray, not NoneType">>
ErrValidation == <<"1 validation error for RunAgentInput", NL, "messages", NL, "  Field required">>
ErrAttrContent == <<"'dict' object has no attribute 'content'">>
ErrAttrGet == <<"'UserMessage' object has no attribute 'get'">>

\* what the agent runtime may raise
RuntimeErrors == {<<"model backend unavailable">>, <<"bad ", QUOTE, "key", QUOTE, NL, NL>>}

--------------------------------------------------------------------------
(* handle_request: method check, body decoding, parsing *)

Ok(v) == [ok |-> TRUE, v |-> Some(v), err |-> <<>>]
Raise(e) == [ok |-> FALSE, v |-> None, err |-> e]

\* the method compared without regard to case
MethodRejected_Mut(ev) ==
    (IF IsSome(ev.httpMethod) THEN Val(ev.httpMethod) ELSE "POST") \notin {"POST", "post"}

\* event.get('httpMethod', 'POST') != 'POST'
MethodRejected(ev) ==
    (IF IsSome(ev.httpMethod) THEN Val(ev.httpMethod) ELSE "POST") # "POST"

\* event.get('body', '{}')
RawBody(ev) == IF IsSome(ev.body) THEN Val(ev.body) ELSE Body("text", PEmptyObj)

\* base64.b64decode(body).decode('utf-8').  A str with no character of the
\* base64 alphabet (the default '{}') decodes to the empty string.
B64Decode(b) ==
    CASE b.kind = "b64"         -> Ok(Body("text", b.payload))
      [] b.kind = "b64_badutf8" -> Raise(ErrBadUtf8)
      [] b.kind = "badb64"      -> Raise(ErrBadB64)
      [] b.kind = "none"        -> Raise(ErrB64None)
      [] b.kind = "text"        -> Ok(Body("text", PNotJson))

DecodeBody(ev) == IF ev.isBase64Encoded THEN B64Decode(RawBody(ev)) ELSE Ok(RawBody(ev))

\* json.loads(body): the text of a base64 string, or of bytes, is not JSON
JsonLoads(b) ==
    CASE b.kind = "none" -> Raise(ErrJsonNone)
      [] b.kind = "text" /\ b.payload.json -> Ok(b.payload)
      [] OTHER -> Raise(ErrJson)

\* no validation: whatever parsed is taken as a run request
ModelValidate_Mut(p) == IF IsSome(p.msgs) THEN Ok(Val(p.msgs)) ELSE Ok(<<>>)

\* RunAgentInput.model_validate(request_data): the request must be an object
\* with a list of messages
ModelValidate(p) ==
    IF p.obj /\ IsSome(p.msgs) THEN Ok(Val(p.msgs)) ELSE Raise(ErrValidation)

\* the 500 response without the exception's text
InternalError_Mut(e) == _error_response(500, <<"Internal server error">>)

\* except Exception as e: return self._error_response(500, ...)
InternalError(e) == _error_response(500, <<"Internal server error: ">> \o e)

ParseRunInput(b) ==
    LET j == JsonLoads(b) IN
    IF ~j.ok THEN j ELSE ModelValidate(Val(j.v))

--------------------------------------------------------------------------
(* VercelAgentHandler._convert_messages *)

\* msg.get('role', 'user') and msg.get('content', '')
RoleOf(msg) == IF IsSome(msg.role) THEN Val(msg.role) ELSE "user"
ContentOf(msg) == IF IsSome(msg.content) THEN Val(msg.content) ELSE <<>>

\* a converted message {'role': role, 'content': content}
Converted(role, content) == [role |-> role, content |-> content]

\* msg.get('role') with no default: a message with no role is dropped
RECURSIVE _convert_messages_Mut(_)
_convert_messages_Mut(ag_ui_messages) ==
    IF ag_ui_messages = <<>> THEN <<>>
    ELSE LET msg == Head(ag_ui_messages)
             content == ContentOf(msg)
             out == IF msg.role = Some("user") THEN <<Converted("user", content)>>
                    ELSE IF msg.role = Some("assistant") THEN <<Converted("assistant", content)>>
                    ELSE IF msg.role = Some("system") THEN <<Converted("system", content)>>
                    ELSE <<>>
         IN out \o _convert_messages_Mut(Tail(ag_ui_messages))

\* msg.get(...) on the first message that is no dict raises AttributeError
ConvertRaises(ag_ui_messages) ==
    IF \E n \in 1..Len(ag_ui_messages) : ~ag_ui_messages[n].dict
    THEN Raise(ErrAttrGet) ELSE Ok(<<>>)

RECURSIVE _convert_messages(_)
_convert_messages(ag_ui_messages) ==
    IF ag_ui_messages = <<>> THEN <<>>
    ELSE LET msg == Head(ag_ui_messages)
             role == RoleOf(msg)
             content == ContentOf(msg)
             out == IF role = "user" THEN <<Converted("user", content)>>
                    ELSE IF role = "assistant" THEN <<Converted("assistant", content)>>
                    ELSE IF role = "system" THEN <<Converted("system", content)>>
                    ELSE <<>>
         IN out \o _convert_messages(Tail(ag_ui_messages))

--------------------------------------------------------------------------
(* _stream_agent_response: the arguments of agent.run_stream *)

\* m.content on a converted message: _convert_messages builds plain dicts,
\* and a dict has no attribute 'content'
AttrContent(m) == Raise(ErrAttrContent)

\* messages[-1].content, with no guard for the empty list
LatestMessage_Mut(msgs) ==
    IF msgs # <<>> THEN AttrContent(msgs[Len(msgs)]) ELSE Raise(<<"list index out of range">>)

\* messages[-1].content if messages else ""
LatestMessage(msgs) ==
    IF msgs # <<>> THEN AttrContent(msgs[Len(msgs)]) ELSE Ok(<<>>)

\* messages[:-1] if len(messages) > 1 else []
MessageHistory(msgs) ==
    IF Len(msgs) > 1 THEN SubSeq(msgs, 1, Len(msgs) - 1) ELSE <<>>

RunStreamCall(prompt, history) == [prompt |-> prompt, message_history |-> history]

--------------------------------------------------------------------------
(* _stream_agent_response: what is appended to response_chunks *)

\* no started frame
OnStarted_Mut(chunks) == chunks

OnStarted(chunks) == Append(chunks, _format_sse_event(StartedEvent))

\* the frame put in front of the buffer
OnChunk_Mut(chunks, chunk, timestamp) ==
    <<_format_sse_event(ChunkEvent(chunk, timestamp))>> \o chunks

OnChunk(chunks, chunk, timestamp) ==
    Append(chunks, _format_sse_event(ChunkEvent(chunk, timestamp)))

\* the final event without the result's data
OnFinal_Mut(chunks, data, cost) ==
    Append(chunks, _format_sse_event(FinalEvent(<<>>, cost)))

OnFinal(chunks, data, cost) ==
    Append(chunks, _format_sse_event(FinalEvent(data, cost)))

\* the buffer replaced by the error frame
OnException_Mut(chunks, e) == <<_format_sse_event(ErrorEvent(e))>>

\* except Exception as e
OnException(chunks, e) == Append(chunks, _format_sse_event(ErrorEvent(e)))

--------------------------------------------------------------------------
(* The agent runtime: what run_stream hands out.  Chunks and the final     *)
(* result's data are text.  The runtime may raise wherever the handler     *)
(* awaits it: entering the stream, fetching a chunk, awaiting the final    *)
(* result, leaving the stream.                                             *)

Chunks == {TxtHi, TxtTwoLines}
Finals == {TxtHi, TxtTwoLines}
Timestamp == <<"2025-01-01T00:00:00">>
Costs == {None, Some("0.0012")}

\* result.timestamp().isoformat() if hasattr(result, 'timestamp') else None
TimestampOf(result) == IF result.hasTimestamp THEN Some(Timestamp) ELSE None

Results == [hasTimestamp : BOOLEAN]

--------------------------------------------------------------------------
(* State machine *)

Init ==
    /\ pc = [i \in Inv |-> "idle"]
    /\ event = [i \in Inv |-> None]
    /\ body = [i \in Inv |-> None]
    /\ run_input = [i \in Inv |-> None]
    /\ messages = [i \in Inv |-> None]
    /\ response_chunks = [i \in Inv |-> <<>>]
    /\ calls = [i \in Inv |-> <<>>]
    /\ rt = [i \in Inv |-> None]
    /\ produced = [i \in Inv |-> <<>>]
    /\ final = [i \in Inv |-> None]
    /\ caught = [i \in Inv |-> None]
    /\ escaped = [i \in Inv |-> None]
    /\ lpc = "idle"
    /\ module = None
    /\ request = None
    /\ request_messages = None
    /\ user_message = None
    /\ agent_runs = <<>>
    /\ sent = <<>>
    /\ tpc = "idle"
    /\ task_type = None
    /\ steps = <<>>
    /\ step_i = 0
    /\ progress_n = 0
    /\ overall_progress = 0
    /\ yielded = <<>>
    /\ state = [document |-> <<>>, version |-> 0]
    /\ wpc = [w \in Writers |-> "idle"]
    /\ document = [w \in Writers |-> None]
    /\ current_doc = [w \in Writers |-> None]
    /\ diffs = [w \in Writers |-> <<>>]
    /\ diff_n = [w \in Writers |-> 0]
    /\ char_i = [w \in Writers |-> 0]
    /\ temp_doc = [w \in Writers |-> None]
    /\ doc_events = [w \in Writers |-> <<>>]
    /\ at_call = [w \in Writers |-> None]
    /\ writes = [w \in Writers |-> 0]
    /\ completions = 0
    /\ response = [i \in Inv |-> None]

\* vercel_handler(event, context): the host invokes the handler
Invoke(i) ==
    /\ pc[i] = "idle"
    /\ \E ev \in Envelopes : event' = [event EXCEPT ![i] = Some(ev)]
    /\ pc' = [pc EXCEPT ![i] = "received"]
    /\ UNCHANGED <<body, run_input, messages, response_chunks, calls, rt, produced,
                   final, caught, response, escaped>>
    /\ UNCHANGED otherVars

\* handle_request: the method check
CheckMethod(i) ==
    /\ pc[i] = "received"
    /\ IF MethodRejected(Val(event[i]))
       THEN /\ response' = [response EXCEPT
                               ![i] = Some(_error_response(405, <<"Method not allowed">>))]
            /\ pc' = [pc EXCEPT ![i] = "responded"]
       ELSE /\ pc' = [pc EXCEPT ![i] = "decode"]
            /\ UNCHANGED response
    /\ UNCHANGED <<event, body, run_input, messages, response_chunks, calls, rt,
                   produced, final, caught, escaped>>
    /\ UNCHANGED otherVars

\* handle_request: the body and its base64 decoding; what the decoding raises
\* reaches the outer except
DecodeStep(i) ==
    /\ pc[i] = "decode"
    /\ LET d == DecodeBody(Val(event[i])) IN
       IF d.ok
       THEN /\ body' = [body EXCEPT ![i] = d.v]
            /\ pc' = [pc EXCEPT ![i] = "parse"]
            /\ UNCHANGED <<response, escaped>>
       ELSE /\ escaped' = [escaped EXCEPT ![i] = Some(d.err)]
            /\ response' = [response EXCEPT ![i] = Some(InternalError(d.err))]
            /\ pc' = [pc EXCEPT ![i] = "responded"]
            /\ UNCHANGED body
    /\ UNCHANGED <<event, run_input, messages, response_chunks, calls, rt, produced,
                   final, caught>>
    /\ UNCHANGED otherVars

\* handle_request: json.loads and RunAgentInput.model_validate
ParseStep(i) ==
    /\ pc[i] = "parse"
    /\ LET r == ParseRunInput(Val(body[i])) IN
       IF r.ok
       THEN /\ run_input' = [run_input EXCEPT ![i] = r.v]
            /\ pc' = [pc EXCEPT ![i] = "validated"]
            /\ UNCHANGED response
       ELSE /\ response' = [response EXCEPT
                               ![i] = Some(_error_response(400,
                                              <<"Invalid request body: ">> \o r.err))]
            /\ pc' = [pc EXCEPT ![i] = "responded"]
            /\ UNCHANGED run_input
    /\ UNCHANGED <<event, body, messages, response_chunks, calls, rt, produced, final, caught,
                   escaped>>
    /\ UNCHANGED otherVars

\* _stream_agent_response: messages = self._convert_messages(...); response_chunks = []
\* The conversion runs before the try: what it raises leaves
\* _stream_agent_response and reaches the outer except of handle_request.
ConvertStep(i) ==
    /\ pc[i] = "validated"
    /\ LET c == ConvertRaises(Val(run_input[i])) IN
       IF c.ok
       THEN /\ messages' = [messages EXCEPT ![i] = Some(_convert_messages(Val(run_input[i])))]
            /\ response_chunks' = [response_chunks EXCEPT ![i] = <<>>]
            /\ pc' = [pc EXCEPT ![i] = "converted"]
            /\ UNCHANGED <<response, escaped>>
       ELSE /\ escaped' = [escaped EXCEPT ![i] = Some(c.err)]
            /\ response' = [response EXCEPT ![i] = Some(InternalError(c.err))]
            /\ pc' = [pc EXCEPT ![i] = "responded"]
            /\ UNCHANGED <<messages, response_chunks>>
    /\ UNCHANGED <<event, body, run_input, calls, rt, produced, final, caught>>
    /\ UNCHANGED otherVars

\* the initial event
StartStep(i) ==
    /\ pc[i] = "converted"
    /\ response_chunks' = [response_chunks EXCEPT ![i] = OnStarted(response_chunks[i])]
    /\ pc' = [pc EXCEPT ![i] = "started"]
    /\ UNCHANGED <<event, body, run_input, messages, calls, rt, produced, final, caught, response,
                   escaped>>
    /\ UNCHANGED otherVars

\* self.agent.run_stream(...): the arguments are evaluated, then the call is made
CallAgent(i) ==
    /\ pc[i] = "started"
    /\ LET msgs == Val(messages[i])
           latest == LatestMessage(msgs)
       IN IF latest.ok
          THEN /\ calls' = [calls EXCEPT
                               ![i] = Append(calls[i],
                                             RunStreamCall(Val(latest.v), MessageHistory(msgs)))]
               /\ \E r \in Results : rt' = [rt EXCEPT ![i] = Some(r)]
               /\ pc' = [pc EXCEPT ![i] = "streaming"]
               /\ UNCHANGED <<response_chunks, caught>>
          ELSE /\ caught' = [caught EXCEPT ![i] = Some(latest.err)]
               /\ response_chunks' = [response_chunks EXCEPT
                                         ![i] = OnException(response_chunks[i], latest.err)]
               /\ pc' = [pc EXCEPT ![i] = "failed"]
               /\ UNCHANGED <<calls, rt>>
    /\ UNCHANGED <<event, body, run_input, messages, produced, final, response, escaped>>
    /\ UNCHANGED otherVars

\* the frame goes to one buffer kept on the handler object
StreamChunk_Mut(i) ==
    /\ pc[i] = "streaming"
    /\ Len(produced[i]) < MaxChunks
    /\ \E chunk \in Chunks :
          /\ produced' = [produced EXCEPT ![i] = Append(produced[i], chunk)]
          /\ response_chunks' = [response_chunks EXCEPT
                                    ![1] = OnChunk(response_chunks[1], chunk,
                                                   TimestampOf(Val(rt[i])))]
    /\ UNCHANGED <<pc, event, body, run_input, messages, calls, rt, final, caught, response,
                   escaped>>
    /\ UNCHANGED otherVars

\* async for chunk in result.stream(): one more chunk
StreamChunk(i) ==
    /\ pc[i] = "streaming"
    /\ Len(produced[i]) < MaxChunks
    /\ \E chunk \in Chunks :
          /\ produced' = [produced EXCEPT ![i] = Append(produced[i], chunk)]
          /\ response_chunks' = [response_chunks EXCEPT
                                    ![i] = OnChunk(response_chunks[i], chunk,
                                                   TimestampOf(Val(rt[i])))]
    /\ UNCHANGED <<pc, event, body, run_input, messages, calls, rt, final, caught, response,
                   escaped>>
    /\ UNCHANGED otherVars

\* the failure is recorded and the stream goes on
StreamRaise_Mut(i) ==
    /\ pc[i] = "streaming"
    /\ caught[i] = None
    /\ \E e \in RuntimeErrors :
          /\ caught' = [caught EXCEPT ![i] = Some(e)]
          /\ response_chunks' = [response_chunks EXCEPT
                                    ![i] = OnException(response_chunks[i], e)]
    /\ UNCHANGED <<pc, event, body, run_input, messages, calls, rt, produced, final,
                   response, escaped>>
    /\ UNCHANGED otherVars

\* the runtime raises: on entering the stream, between chunks, or while the
\* final result is awaited
StreamRaise(i) ==
    /\ pc[i] = "streaming"
    /\ \E e \in RuntimeErrors :
          /\ caught' = [caught EXCEPT ![i] = Some(e)]
          /\ response_chunks' = [response_chunks EXCEPT
                                    ![i] = OnException(response_chunks[i], e)]
    /\ pc' = [pc EXCEPT ![i] = "failed"]
    /\ UNCHANGED <<event, body, run_input, messages, calls, rt, produced, final, response,
                   escaped>>
    /\ UNCHANGED otherVars

\* the stream is exhausted; final_result = await result; the final event
StreamFinish(i) ==
    /\ pc[i] = "streaming"
    /\ \E data \in Finals, cost \in Costs :
          /\ final' = [final EXCEPT ![i] = Some([data |-> data, cost |-> cost])]
          /\ response_chunks' = [response_chunks EXCEPT
                                    ![i] = OnFinal(response_chunks[i], data, cost)]
    /\ pc' = [pc EXCEPT ![i] = "exiting"]
    /\ UNCHANGED <<event, body, run_input, messages, calls, rt, produced, response, caught,
                   escaped>>
    /\ UNCHANGED otherVars

\* leaving `async with`: the runtime's context exit returns
ExitOk(i) ==
    /\ pc[i] = "exiting"
    /\ pc' = [pc EXCEPT ![i] = "completed"]
    /\ UNCHANGED <<event, body, run_input, messages, response_chunks, calls, rt,
                   produced, final, caught, response, escaped>>
    /\ UNCHANGED otherVars

\* leaving `async with`: the runtime's context exit raises, inside the try
ExitRaise(i) ==
    /\ pc[i] = "exiting"
    /\ \E e \in RuntimeErrors :
          /\ caught' = [caught EXCEPT ![i] = Some(e)]
          /\ response_chunks' = [response_chunks EXCEPT
                                    ![i] = OnException(response_chunks[i], e)]
    /\ pc' = [pc EXCEPT ![i] = "failed"]
    /\ UNCHANGED <<event, body, run_input, messages, calls, rt, produced, final, response,
                   escaped>>
    /\ UNCHANGED otherVars

\* return {'statusCode': 200, ...}
Respond(i) ==
    /\ pc[i] \in {"completed", "failed"}
    /\ response' = [response EXCEPT ![i] = Some(StreamingResponse(response_chunks[i]))]
    /\ pc' = [pc EXCEPT ![i] = "responded"]
    /\ UNCHANGED <<event, body, run_input, messages, response_chunks, calls, rt,
                   produced, final, caught, escaped>>
    /\ UNCHANGED otherVars

\* one invocation of the handler
Next ==
    \/ Invoke(1)
    \/ CheckMethod(1)
    \/ DecodeStep(1)
    \/ ParseStep(1)
    \/ ConvertStep(1)
    \/ StartStep(1)
    \/ CallAgent(1)
    \/ StreamChunk(1)
    \/ StreamRaise(1)
    \/ StreamFinish(1)
    \/ ExitOk(1)
    \/ ExitRaise(1)
    \/ Respond(1)

Spec == Init /\ [][Next]_vars

\* The event loop runs the coroutine of an invocation until it returns: a
\* step that can be taken is eventually taken.
FairSpec == Spec /\ WF_vars(Next)

--------------------------------------------------------------------------
(* Two invocations of the one handler object that create_agent_handler     *)
(* builds, interleaved.  The requests and the runtime's outputs are drawn  *)
(* from small sets, with different outputs for the two invocations.        *)

ConcEnvelopes ==
    {Envelope(Some("POST"), Some(Body("text", PRun(<<>>))), FALSE),
     Envelope(Some("POST"), Some(Body("text", PRun(<<Msg(Some("user"), Some(TxtHi))>>))), FALSE),
     Envelope(Some("POST"), Some(Body("text", PRun(<<ObjMsg("user", TxtHi)>>))), FALSE),
     Envelope(Some("POST"), Some(Body("b64", PNotJson)), TRUE),
     Envelope(Some("POST"), Some(Body("badb64", PNotJson)), TRUE),
     Envelope(Some("GET"), None, FALSE)}

\* what the runtime hands to invocation i
ConcChunk(i) == IF i = 1 THEN TxtHi ELSE TxtTwoLines
ConcFinal(i) == [data |-> ConcChunk(i), cost |-> IF i = 1 THEN None ELSE Some("0.0012")]
ConcError(i) == IF i = 1 THEN <<"model backend unavailable">>
                ELSE <<"bad ", QUOTE, "key", QUOTE, NL, NL>>

ConcInputs ==
    \A i \in Inv :
        /\ IsSome(event[i]) => Val(event[i]) \in ConcEnvelopes
        /\ IsSome(rt[i]) => Val(rt[i]).hasTimestamp = (i = 1)
        /\ \A n \in 1..Len(produced[i]) : produced[i][n] = ConcChunk(i)
        /\ IsSome(final[i]) => Val(final[i]) = ConcFinal(i)
        /\ (IsSome(caught[i]) /\ calls[i] # <<>>) => Val(caught[i]) = ConcError(i)

NextConc ==
    \E i \in Inv :
        \/ Invoke(i) /\ ConcInputs'
        \/ CheckMethod(i)
        \/ DecodeStep(i)
        \/ ParseStep(i)
        \/ ConvertStep(i)
        \/ StartStep(i)
        \/ CallAgent(i) /\ ConcInputs'
        \/ StreamChunk(i) /\ ConcInputs'
        \/ StreamRaise(i) /\ ConcInputs'
        \/ StreamFinish(i) /\ ConcInputs'
        \/ ExitOk(i)
        \/ ExitRaise(i) /\ ConcInputs'
        \/ Respond(i)

SpecConc == Init /\ [][NextConc]_vars

--------------------------------------------------------------------------
(* handler.do_POST of api/agents/agentic_chat.py and weather_chat.py: the  *)
(* two methods differ in the agent they run and in the default prompt.     *)

handlerVars == <<pc, event, body, run_input, messages, response_chunks, calls, rt,
                 produced, final, caught, escaped, response>>

\* what do_POST leaves alone
exceptLegacy == <<handlerVars, taskVars, docVars>>

Modules == {"agentic_chat", "weather_chat"}

\* user_message = "Hello!" / "Hello! How can I help you with weather information?"
DefaultGreeting(m) ==
    IF m = "agentic_chat" THEN <<"Hello!">>
    ELSE <<"Hello! How can I help you with weather information?">>

\* an element of 'messages' that is a JSON string, not an object
StrElem == [role |-> None, content |-> None, dict |-> FALSE]

\* the elements of the 'messages' list of a request: a content may be
\* missing, empty or a text
LegacyMsgs ==
    {Msg(Some("user"), c) : c \in {None, Some(<<>>), Some(TxtHi), Some(TxtTwoLines)}}
    \cup {Msg(Some("assistant"), Some(TxtHi)), Msg(None, Some(TxtHi)), StrElem}

\* the request: whether the Content-Length header is there, and the body
Request(hasLength, payload) == [hasLength |-> hasLength, payload |-> payload]

Requests ==
    {Request(TRUE, p) : p \in {PNotJson, PArray, PEmptyObj}}
    \cup {Request(TRUE, PRun(ms)) : ms \in SeqsUpTo(LegacyMsgs, MaxMsgs)}
    \cup {Request(FALSE, PEmptyObj)}

ErrNoLength == <<"int() argument must be a string, a bytes-like object or a real number, not 'NoneType'">>
ErrStrGet == <<"'str' object has no attribute 'get'">>
ErrListGet == <<"'list' object has no attribute 'get'">>

\* content_length = int(self.headers['Content-Length']); body = rfile.read(...)
ReadBody(req) == IF req.hasLength THEN Ok(req.payload) ELSE Raise(ErrNoLength)

\* request_data = json.loads(body); messages = request_data.get('messages', [])
\* inside try / bare except
ParseMessages(p) ==
    IF ~p.json THEN Raise(ErrJson)
    ELSE IF ~p.obj THEN Raise(ErrListGet)
    ELSE IF IsSome(p.msgs) THEN Ok(Val(p.msgs)) ELSE Ok(<<>>)

\* the first user message from the front
RECURSIVE LatestUserMessage_Mut(_)
LatestUserMessage_Mut(msgs) ==
    IF msgs = <<>> THEN Ok(<<>>)
    ELSE LET msg == Head(msgs) IN
         IF ~msg.dict THEN Raise(ErrStrGet)
         ELSE IF msg.role = Some("user")
              THEN Ok(IF IsSome(msg.content) THEN Val(msg.content) ELSE <<>>)
              ELSE LatestUserMessage_Mut(Tail(msgs))

\* user_message = ""; for msg in reversed(messages): if msg.get('role') == 'user':
\*     user_message = msg.get('content', ''); break
RECURSIVE LatestUserMessage(_)
LatestUserMessage(msgs) ==
    IF msgs = <<>> THEN Ok(<<>>)
    ELSE LET msg == msgs[Len(msgs)] IN
         IF ~msg.dict THEN Raise(ErrStrGet)
         ELSE IF msg.role = Some("user")
              THEN Ok(IF IsSome(msg.content) THEN Val(msg.content) ELSE <<>>)
              ELSE LatestUserMessage(SubSeq(msgs, 1, Len(msgs) - 1))

\* if not user_message: user_message = <default>
OrDefault(text, m) == IF text = <<>> THEN DefaultGreeting(m) ELSE text

\* self.send_error(code, ...) and self.send_response(code)
Send(codes, code) == Append(codes, code)

\* except Exception as e: self.send_error(500, str(e))
OnError(codes) == Send(codes, 500)

\* the HTTP server calls do_POST of one of the two handlers
DoPost ==
    /\ lpc = "idle"
    /\ \E m \in Modules : module' = Some(m)
    /\ \E req \in Requests : request' = Some(req)
    /\ lpc' = "read"
    /\ UNCHANGED <<request_messages, user_message, agent_runs, sent, exceptLegacy>>

\* the body is read, then parsed
ReadAndParse ==
    /\ lpc = "read"
    /\ LET b == ReadBody(Val(request)) IN
       IF ~b.ok
       THEN /\ sent' = OnError(sent)
            /\ lpc' = "done"
            /\ UNCHANGED request_messages
       ELSE LET ms == ParseMessages(Val(b.v)) IN
            IF ms.ok
            THEN /\ request_messages' = ms.v
                 /\ lpc' = "parsed"
                 /\ UNCHANGED sent
            ELSE /\ sent' = Send(sent, 400)
                 /\ lpc' = "done"
                 /\ UNCHANGED request_messages
    /\ UNCHANGED <<module, request, user_message, agent_runs, exceptLegacy>>

\* the latest user message, or the default
SelectPrompt ==
    /\ lpc = "parsed"
    /\ LET u == LatestUserMessage(Val(request_messages)) IN
       IF u.ok
       THEN /\ user_message' = Some(OrDefault(Val(u.v), Val(module)))
            /\ lpc' = "selected"
            /\ UNCHANGED sent
       ELSE /\ sent' = OnError(sent)
            /\ lpc' = "done"
            /\ UNCHANGED user_message
    /\ UNCHANGED <<module, request, request_messages, agent_runs, exceptLegacy>>

\* response_text = asyncio.run(run_agent()): the agent returns
RunAgentOk ==
    /\ lpc = "selected"
    /\ agent_runs' = Append(agent_runs, Val(user_message))
    /\ lpc' = "ran"
    /\ UNCHANGED <<module, request, request_messages, user_message, sent, exceptLegacy>>

\* response_text = asyncio.run(run_agent()): the agent raises
RunAgentRaise ==
    /\ lpc = "selected"
    /\ agent_runs' = Append(agent_runs, Val(user_message))
    /\ sent' = OnError(sent)
    /\ lpc' = "done"
    /\ UNCHANGED <<module, request, request_messages, user_message, exceptLegacy>>

\* self.send_response(200) and the headers
SendOk ==
    /\ lpc = "ran"
    /\ sent' = Send(sent, 200)
    /\ lpc' = "headers_sent"
    /\ UNCHANGED <<module, request, request_messages, user_message, agent_runs, exceptLegacy>>

\* self.wfile.write(...) returns
WriteOk ==
    /\ lpc = "headers_sent"
    /\ lpc' = "done"
    /\ UNCHANGED <<module, request, request_messages, user_message, agent_runs, sent,
                   exceptLegacy>>

\* self.wfile.write(...) raises (the client closed the connection): the
\* statement is inside the try
WriteRaise ==
    /\ lpc = "headers_sent"
    /\ sent' = OnError(sent)
    /\ lpc' = "done"
    /\ UNCHANGED <<module, request, request_messages, user_message, agent_runs, exceptLegacy>>

LegacyNext ==
    \/ DoPost
    \/ ReadAndParse
    \/ SelectPrompt
    \/ RunAgentOk
    \/ RunAgentRaise
    \/ SendOk
    \/ WriteOk
    \/ WriteRaise

LegacySpec == Init /\ [][LegacyNext]_vars

--------------------------------------------------------------------------
(* start_long_running_task of agents/agentic_generative_ui.py: an async    *)
(* generator of progress events.  Each event carries model_dump() of the   *)
(* tracker, a copy of the steps as they are when it is yielded.            *)

exceptTask == <<handlerVars, legacyVars, docVars>>

\* task_type.lower()
LowerToken(t) ==
    CASE t = "Deploy" -> "deploy"
      [] t = "DATA" -> "data"
      [] OTHER -> t

Lower(text) == [n \in 1..Len(text) |-> LowerToken(text[n])]

\* "word" in text, for a word that is a token of its own
In(word, text) == \E n \in 1..Len(text) : text[n] = word

TaskTypes == {<<"deploy", "ment">>, <<"Deploy", " the ", "data">>, <<"DATA", "_processing">>,
              <<"analysis">>, <<"cleanup">>, <<>>}

\* ProgressStep(id=..., title=..., status="pending"), progress 0 and message ''
ProgressStep(id, title) ==
    [id |-> id, title |-> title, status |-> "pending", progress |-> 0, message |-> <<>>]

StepList(titles) == [n \in 1..Len(titles) |-> ProgressStep(n, titles[n])]

\* steps = [...]: the list chosen by the task type
StepsFor(type) ==
    IF In("deploy", Lower(type))
    THEN StepList(<<"Installing dependencies", "Running build process", "Running tests",
                    "Deploying to production", "Verifying deployment">>)
    ELSE IF In("data", Lower(type)) \/ In("analysis", Lower(type))
    THEN StepList(<<"Loading dataset", "Data preprocessing", "Feature extraction",
                    "Model training", "Generating insights">>)
    ELSE StepList(<<"Initializing task", "Processing request", "Optimizing results",
                    "Quality check", "Finalizing output">>)

\* for progress in [25, 50, 75, 100]
ProgressValues == <<25, 50, 75, 100>>

\* step.status = "in_progress"; step.message = f"Working on {step.title.lower()}..."
InProgress(step) ==
    [step EXCEPT !.status = "in_progress", !.message = <<"Working on ", step.title, "...">>]

\* steps[j].status = "completed"; steps[j].progress = 100; steps[j].message = ...
Completed(step) ==
    [step EXCEPT !.status = "completed", !.progress = 100, !.message = <<"Complete">>]

\* the step is left as it is
MarkCompleted_Mut(step) == step

\* after the inner loop: step.status = "completed"; step.message = ...
MarkCompleted(step) == [step EXCEPT !.status = "completed", !.message = <<"Complete">>]

\* overall_progress = int((i / len(steps)) * 100); the float quotient and
\* product round to the integer quotient for the lists of five steps
OverallAtStart(i, n) == (i * 100) \div n

\* the share of the current step alone
OverallAtWork_Mut(overall, progress, n) == (progress * 100) \div (100 * n)

\* overall_progress + int((progress / 100) * (100 / len(steps)))
OverallAtWork(overall, progress, n) == overall + (progress * 100) \div (100 * n)

\* ProgressTracker(steps=steps, overall_progress=...).model_dump()
Tracker(ss, overall) == [steps |-> ss, overall_progress |-> overall]

\* the agent calls the tool
StartTask ==
    /\ tpc = "idle"
    /\ \E type \in TaskTypes :
          /\ task_type' = Some(type)
          /\ steps' = StepsFor(type)
    /\ step_i' = 0
    /\ tpc' = "loop"
    /\ UNCHANGED <<progress_n, overall_progress, yielded, exceptTask>>

\* for i, step in enumerate(steps): the statements before the first yield
BeginStep ==
    /\ tpc = "loop"
    /\ step_i < Len(steps)
    /\ steps' = [j \in 1..Len(steps) |->
                    IF j = step_i + 1 THEN InProgress(steps[j])
                    ELSE IF j < step_i + 1 THEN Completed(steps[j])
                    ELSE steps[j]]
    /\ overall_progress' = OverallAtStart(step_i, Len(steps))
    /\ tpc' = "yield_start"
    /\ UNCHANGED <<task_type, step_i, progress_n, yielded, exceptTask>>

\* the first yield of the step
YieldStart ==
    /\ tpc = "yield_start"
    /\ yielded' = Append(yielded, Tracker(steps, overall_progress))
    /\ progress_n' = 1
    /\ tpc' = "work"
    /\ UNCHANGED <<task_type, steps, step_i, overall_progress, exceptTask>>

\* await asyncio.sleep(0.5); step.progress = progress
Work ==
    /\ tpc = "work"
    /\ steps' = [steps EXCEPT ![step_i + 1].progress = ProgressValues[progress_n]]
    /\ tpc' = "yield_work"
    /\ UNCHANGED <<task_type, step_i, progress_n, overall_progress, yielded, exceptTask>>

\* the yield of the inner loop
YieldWork ==
    /\ tpc = "yield_work"
    /\ yielded' = Append(yielded,
                         Tracker(steps, OverallAtWork(overall_progress,
                                                      ProgressValues[progress_n],
                                                      Len(steps))))
    /\ IF progress_n < Len(ProgressValues)
       THEN progress_n' = progress_n + 1 /\ tpc' = "work"
       ELSE progress_n' = 0 /\ tpc' = "mark"
    /\ UNCHANGED <<task_type, steps, step_i, overall_progress, exceptTask>>

\* the end of the outer loop's body
EndStep ==
    /\ tpc = "mark"
    /\ steps' = [steps EXCEPT ![step_i + 1] = MarkCompleted(steps[step_i + 1])]
    /\ step_i' = step_i + 1
    /\ tpc' = "loop"
    /\ UNCHANGED <<task_type, progress_n, overall_progress, yielded, exceptTask>>

\* the final yield, after the loop
YieldFinal ==
    /\ tpc = "loop"
    /\ step_i = Len(steps)
    /\ yielded' = Append(yielded, Tracker(steps, 100))
    /\ tpc' = "done"
    /\ UNCHANGED <<task_type, steps, step_i, progress_n, overall_progress, exceptTask>>

TaskNext ==
    \/ StartTask
    \/ BeginStep
    \/ YieldStart
    \/ Work
    \/ YieldWork
    \/ EndStep
    \/ YieldFinal

TaskSpec == Init /\ [][TaskNext]_vars

--------------------------------------------------------------------------
(* write_document of agents/predictive_state_updates.py: an async          *)
(* generator working on ctx.deps.state, the DocumentState that             *)
(* agent.to_ag_ui(deps=StateDeps(DocumentState())) hands to every run.     *)
(* Here a text is a sequence of characters, one token each.                *)

exceptDoc == <<handlerVars, legacyVars, taskVars>>

\* the documents the calls are made with
Docs == {<<>>, <<"a">>, <<"a", "b">>, <<"a", NL, "b">>}

\* text.split('\n')
RECURSIVE SplitLines(_)
SplitLines(text) ==
    LET nls == {n \in 1..Len(text) : text[n] = NL} IN
    IF nls = {} THEN <<text>>
    ELSE LET p == CHOOSE n \in nls : \A m \in nls : n <= m IN
         <<SubSeq(text, 1, p - 1)>> \o SplitLines(SubSeq(text, p + 1, Len(text)))

\* '\n'.join(lines)
RECURSIVE JoinLines(_)
JoinLines(lines) ==
    IF Len(lines) = 1 THEN lines[1]
    ELSE lines[1] \o <<NL>> \o JoinLines(Tail(lines))

Spaces(n) == [k \in 1..n |-> " "]

insert_at_position(text, line, column, char) ==
    LET lines0 == IF text # <<>> THEN SplitLines(text) ELSE <<<<>>>>
        lines == IF line >= Len(lines0)
                 THEN lines0 \o [k \in 1..(line - Len(lines0) + 1) |-> <<>>]
                 ELSE lines0
        line_text0 == lines[line + 1]
        line_text == IF column > Len(line_text0)
                     THEN line_text0 \o Spaces(column - Len(line_text0))
                     ELSE line_text0
    IN JoinLines([lines EXCEPT ![line + 1] =
                     SubSeq(line_text, 1, column) \o <<char>>
                     \o SubSeq(line_text, column + 1, Len(line_text))])

\* DocumentDiff(type=..., line=..., content=..., preview=...)
DocumentDiff(type, line, content, preview) ==
    [type |-> type, line |-> line, content |-> content, preview |-> preview]

calculate_diffs(old_text, new_text) ==
    IF old_text = <<>>
    THEN <<DocumentDiff("addition", 0, new_text, "Adding new content...")>>
    ELSE <<DocumentDiff("modification", 0, new_text, "Updating document content...")>>

\* the values of the three events
DiffsEvent(ds, version) ==
    [name |-> "document_diffs", diffs |-> ds, version |-> Some(version), document |-> None,
     cursor_position |-> None, is_typing |-> FALSE, complete |-> FALSE]

TypingEvent(doc, line, column) ==
    [name |-> "document_update", diffs |-> <<>>, version |-> None, document |-> Some(doc),
     cursor_position |-> Some([line |-> line, column |-> column]), is_typing |-> TRUE,
     complete |-> FALSE]

CompleteEvent(doc, version) ==
    [name |-> "document_update", diffs |-> <<>>, version |-> Some(version),
     document |-> Some(doc), cursor_position |-> None, is_typing |-> FALSE,
     complete |-> TRUE]

\* 'version': ctx.deps.state.version + 1
AnnouncedVersion(st) == st.version + 1

\* the document alone is written
UpdateState_Mut(st, doc) == [document |-> doc, version |-> st.version]

\* ctx.deps.state.document = document; ctx.deps.state.version += 1
UpdateState(st, doc) == [document |-> doc, version |-> st.version + 1]

\* the typing loop has a character left in the diff it is at
HasChar(w) ==
    /\ diff_n[w] <= Len(diffs[w])
    /\ diffs[w][diff_n[w]].type = "addition"
    /\ char_i[w] < Len(diffs[w][diff_n[w]].content)

\* the call begins and runs to its first yield
CallWrite(w) ==
    /\ wpc[w] = "idle"
    /\ writes[w] < MaxWrites
    /\ writes' = [writes EXCEPT ![w] = writes[w] + 1]
    /\ at_call' = [at_call EXCEPT ![w] = Some(state)]
    /\ \E doc \in Docs :
          /\ document' = [document EXCEPT ![w] = Some(doc)]
          /\ diffs' = [diffs EXCEPT ![w] = calculate_diffs(state.document, doc)]
          /\ doc_events' = [doc_events EXCEPT
                               ![w] = <<DiffsEvent(calculate_diffs(state.document, doc),
                                                   AnnouncedVersion(state))>>]
    /\ current_doc' = [current_doc EXCEPT ![w] = Some(state.document)]
    /\ temp_doc' = [temp_doc EXCEPT ![w] = Some(state.document)]
    /\ diff_n' = [diff_n EXCEPT ![w] = 1]
    /\ char_i' = [char_i EXCEPT ![w] = 0]
    /\ wpc' = [wpc EXCEPT ![w] = "typing"]
    /\ UNCHANGED <<state, completions, exceptDoc>>

\* await asyncio.sleep(0.05); temp_doc = insert_at_position(...); yield
TypeChar(w) ==
    /\ wpc[w] = "typing"
    /\ HasChar(w)
    /\ LET diff == diffs[w][diff_n[w]]
           doc == insert_at_position(Val(temp_doc[w]), diff.line, char_i[w],
                                     diff.content[char_i[w] + 1])
       IN /\ temp_doc' = [temp_doc EXCEPT ![w] = Some(doc)]
          /\ doc_events' = [doc_events EXCEPT
                               ![w] = Append(doc_events[w],
                                             TypingEvent(doc, diff.line, char_i[w] + 1))]
    /\ char_i' = [char_i EXCEPT ![w] = char_i[w] + 1]
    /\ UNCHANGED <<state, wpc, document, current_doc, diffs, diff_n, at_call, writes,
                   completions, exceptDoc>>

\* the diff is typed, or is no addition: the next diff
NextDiff(w) ==
    /\ wpc[w] = "typing"
    /\ diff_n[w] <= Len(diffs[w])
    /\ ~HasChar(w)
    /\ diff_n' = [diff_n EXCEPT ![w] = diff_n[w] + 1]
    /\ char_i' = [char_i EXCEPT ![w] = 0]
    /\ UNCHANGED <<state, wpc, document, current_doc, diffs, temp_doc, doc_events, at_call,
                   writes, completions, exceptDoc>>

\* after the loop: the shared state is updated and the last event yielded
Complete(w) ==
    /\ wpc[w] = "typing"
    /\ diff_n[w] > Len(diffs[w])
    /\ state' = UpdateState(state, Val(document[w]))
    /\ doc_events' = [doc_events EXCEPT
                         ![w] = Append(doc_events[w],
                                       CompleteEvent(Val(document[w]),
                                                     UpdateState(state, Val(document[w])).version))]
    /\ completions' = completions + 1
    /\ wpc' = [wpc EXCEPT ![w] = "completed"]
    /\ UNCHANGED <<document, current_doc, diffs, diff_n, char_i, temp_doc, at_call, writes,
                   exceptDoc>>

\* the consumer asks for one more event and the generator ends
Exhaust(w) ==
    /\ wpc[w] = "completed"
    /\ wpc' = [wpc EXCEPT ![w] = "done"]
    /\ UNCHANGED <<state, document, current_doc, diffs, diff_n, char_i, temp_doc,
                   doc_events, at_call, writes, completions, exceptDoc>>

\* the consumer abandons the generator at a yield
Abandon(w) ==
    /\ wpc[w] \in {"typing", "completed"}
    /\ wpc' = [wpc EXCEPT ![w] = "closed"]
    /\ UNCHANGED <<state, document, current_doc, diffs, diff_n, char_i, temp_doc,
                   doc_events, at_call, writes, completions, exceptDoc>>

\* the writer is free for its next call
Return(w) ==
    /\ wpc[w] \in {"done", "closed"}
    /\ writes[w] < MaxWrites
    /\ wpc' = [wpc EXCEPT ![w] = "idle"]
    /\ document' = [document EXCEPT ![w] = None]
    /\ current_doc' = [current_doc EXCEPT ![w] = None]
    /\ temp_doc' = [temp_doc EXCEPT ![w] = None]
    /\ diffs' = [diffs EXCEPT ![w] = <<>>]
    /\ diff_n' = [diff_n EXCEPT ![w] = 0]
    /\ char_i' = [char_i EXCEPT ![w] = 0]
    /\ doc_events' = [doc_events EXCEPT ![w] = <<>>]
    /\ at_call' = [at_call EXCEPT ![w] = None]
    /\ UNCHANGED <<state, writes, completions, exceptDoc>>

\* one writer at a time
DocNext ==
    \/ CallWrite(1)
    \/ TypeChar(1)
    \/ NextDiff(1)
    \/ Complete(1)
    \/ Exhaust(1)
    \/ Abandon(1)
    \/ Return(1)

DocSpec == Init /\ [][DocNext]_vars

\* the calls of both writers, interleaved at their yields and awaits
DocConcNext ==
    \E w \in Writers :
        \/ CallWrite(w)
        \/ TypeChar(w)
        \/ NextDiff(w)
        \/ Complete(w)
        \/ Exhaust(w)
        \/ Abandon(w)
        \/ Return(w)

DocConcSpec == Init /\ [][DocConcNext]_vars

--------------------------------------------------------------------------
(* Reading a response back: SSE frames and JSON decoding, as a client of  *)
(* the handler does.                                                      *)

NumberLiterals == {Val(c) : c \in Costs \ {None}}

ParseFail == [ok |-> FALSE, v |-> JNull, next |-> 0]
Parsed(v, next) == [ok |-> TRUE, v |-> v, next |-> next]

\* the characters of a JSON string from position p to its closing quote
RECURSIVE ParseString(_, _, _)
ParseString(ts, p, acc) ==
    IF p > Len(ts) THEN ParseFail
    ELSE IF ts[p] = QUOTE THEN Parsed(JStr(acc), p + 1)
    ELSE IF ts[p] = NL THEN ParseFail
    ELSE IF ts[p] = BSLASH
         THEN IF p + 1 > Len(ts) THEN ParseFail
              ELSE IF ts[p + 1] = "n" THEN ParseString(ts, p + 2, Append(acc, NL))
              ELSE IF ts[p + 1] \in {QUOTE, BSLASH}
                   THEN ParseString(ts, p + 2, Append(acc, ts[p + 1]))
              ELSE ParseFail
    ELSE ParseString(ts, p + 1, Append(acc, ts[p]))

RECURSIVE ParseValue(_, _)
RECURSIVE ParseMembers(_, _, _)
ParseValue(ts, p) ==
    IF p > Len(ts) THEN ParseFail
    ELSE IF ts[p] = QUOTE THEN ParseString(ts, p + 1, <<>>)
    ELSE IF ts[p] = "null" THEN Parsed(JNull, p + 1)
    ELSE IF ts[p] \in NumberLiterals THEN Parsed(JNum(ts[p]), p + 1)
    ELSE IF ts[p] = "{" THEN ParseMembers(ts, p + 1, <<>>)
    ELSE ParseFail

\* the members of an object from position p to its closing brace
ParseMembers(ts, p, acc) ==
    IF p > Len(ts) THEN ParseFail
    ELSE IF ts[p] = "}" /\ acc = <<>> THEN Parsed(JObj(acc), p + 1)
    ELSE IF ts[p] # QUOTE THEN ParseFail
    ELSE LET key == ParseString(ts, p + 1, <<>>) IN
         IF ~key.ok \/ Len(key.v.s) # 1 \/ key.next > Len(ts) THEN ParseFail
         ELSE IF ts[key.next] # ": " THEN ParseFail
         ELSE LET val == ParseValue(ts, key.next + 1) IN
              IF ~val.ok \/ val.next > Len(ts) THEN ParseFail
              ELSE LET ms == Append(acc, Member(key.v.s[1], val.v)) IN
                   IF ts[val.next] = "}" THEN Parsed(JObj(ms), val.next + 1)
                   ELSE IF ts[val.next] = ", " THEN ParseMembers(ts, val.next + 1, ms)
                   ELSE ParseFail

\* json.loads of a text: the value, when the whole text is one JSON value
DecodeJson(ts) ==
    LET r == ParseValue(ts, 1) IN
    IF r.ok /\ r.next = Len(ts) + 1 THEN Some(r.v) ELSE None

\* obj.get(key) on a decoded value
Get(v, key) ==
    IF v.k # "obj" THEN None
    ELSE LET hits == {n \in 1..Len(v.m) : v.m[n].key = key} IN
         IF hits = {} THEN None
         ELSE Some(v.m[CHOOSE n \in hits : \A n2 \in hits : n2 <= n].val)

\* the body cut after every blank line
RECURSIVE SplitFrames(_)
SplitFrames(b) ==
    IF b = <<>> THEN <<>>
    ELSE LET ends == {p \in 1..(Len(b) - 1) : b[p] = NL /\ b[p + 1] = NL} IN
         IF ends = {} THEN <<b>>
         ELSE LET p == CHOOSE q \in ends : \A q2 \in ends : q <= q2 IN
              <<SubSeq(b, 1, p + 1)>> \o SplitFrames(SubSeq(b, p + 2, Len(b)))

\* the event a frame carries: the frame is 'data: ' + JSON object + two
\* newlines (None when the frame is malformed)
FrameEvent(f) ==
    IF Len(f) >= 4 /\ f[1] = "data: " /\ f[Len(f) - 1] = NL /\ f[Len(f)] = NL
    THEN LET j == DecodeJson(SubSeq(f, 2, Len(f) - 2)) IN
         IF IsSome(j) /\ Val(j).k = "obj" THEN j ELSE None
    ELSE None

WellFramed(f) == IsSome(FrameEvent(f))

Field(ev, a, b) ==
    LET d == Get(ev, a) IN IF IsSome(d) THEN Get(Val(d), b) ELSE None

TypeIs(ev, t) == Get(ev, "type") = Some(JStr(<<t>>))
IsStartedEvent(ev) == TypeIs(ev, "agent_response") /\ Field(ev, "data", "status") = Some(JStr(<<"started">>))
IsCompletedEvent(ev) == TypeIs(ev, "agent_response") /\ Field(ev, "data", "status") = Some(JStr(<<"completed">>))
IsErrorEvent(ev) == TypeIs(ev, "error")
IsContentEvent(ev) ==
    /\ TypeIs(ev, "agent_response")
    /\ IsSome(Field(ev, "data", "content"))
    /\ Field(ev, "data", "status") = None

\* the events of a response body, frame by frame
BodyEvents(b) ==
    LET frames == SplitFrames(b) IN [n \in 1..Len(frames) |-> FrameEvent(frames[n])]

\* the state of an invocation
Responded(i) == pc[i] = "responded"
Status(i) == Val(response[i]).statusCode
AgentInvoked(i) == calls[i] # <<>>
Contains(text, token) == \E n \in 1..Len(text) : text[n] = token

\* the 'error' message of a JSON error response
ErrorMessage(i) ==
    LET j == DecodeJson(Val(response[i]).body) IN
    IF IsSome(j) /\ IsSome(Get(Val(j), "error")) THEN Some(Val(Get(Val(j), "error")).s)
    ELSE None

--------------------------------------------------------------------------
HasOtherMethod(i) ==
    /\ IsSome(event[i])
    /\ IsSome(Val(event[i]).httpMethod)
    /\ Val(Val(event[i]).httpMethod) # "POST"

(* C1: a request whose httpMethod is present and is not exactly 'POST' is  *)
(* answered with status 405, and the agent runtime is never invoked for it.*)
C1_NonPostRejected ==
    \A i \in Inv :
        HasOtherMethod(i) =>
            /\ ~AgentInvoked(i)
            /\ pc[i] \in {"received", "responded"}
            /\ Responded(i) => Status(i) = 405

C1_Witness ==
    \E i \in Inv : HasOtherMethod(i) /\ Responded(i) /\ Status(i) = 405
                   /\ Val(Val(event[i]).httpMethod) = "post"

--------------------------------------------------------------------------
\* the decoded body is not JSON text
FailsJsonParsing(b) == b.kind # "text" \/ ~b.payload.json

\* the decoded body is JSON, but no object with a message list
FailsSchema(b) == b.kind = "text" /\ b.payload.json /\ ~(b.payload.obj /\ IsSome(b.payload.msgs))

HasBadBody(i) ==
    /\ IsSome(body[i])
    /\ FailsJsonParsing(Val(body[i])) \/ FailsSchema(Val(body[i]))

(* C2: a POST request whose decoded body fails JSON parsing, or parses as  *)
(* JSON but fails the RunAgentInput schema, is answered with status 400    *)
(* and an error message containing 'Invalid request body', and the agent   *)
(* runtime is never invoked for it.                                        *)
C2_BadBodyRejected ==
    \A i \in Inv :
        HasBadBody(i) =>
            /\ ~AgentInvoked(i)
            /\ pc[i] \in {"parse", "responded"}
            /\ Responded(i) =>
                  /\ Status(i) = 400
                  /\ IsSome(ErrorMessage(i))
                  /\ Contains(Val(ErrorMessage(i)), "Invalid request body: ")

C2_Witness ==
    \E i \in Inv :
        /\ HasBadBody(i) /\ FailsSchema(Val(body[i]))
        /\ Val(event[i]).isBase64Encoded
        /\ Responded(i) /\ Status(i) = 400
        /\ ErrorMessage(i) = Some(<<"Invalid request body: ">> \o ErrValidation)

--------------------------------------------------------------------------
(* Views of a streamed response *)

\* the events of the frames buffered so far, and of the returned body
ChunkEvents(i) == [n \in 1..Len(response_chunks[i]) |-> FrameEvent(response_chunks[i][n])]
ResponseEvents(i) == BodyEvents(Val(response[i]).body)

AllDecoded(evs) == \A n \in 1..Len(evs) : IsSome(evs[n])
Positions(evs, Test(_)) == {n \in 1..Len(evs) : IsSome(evs[n]) /\ Test(Val(evs[n]))}

\* the contents carried by the content events, in frame order
RECURSIVE ContentsOf(_)
ContentsOf(evs) ==
    IF evs = <<>> THEN <<>>
    ELSE (IF IsSome(Head(evs)) /\ IsContentEvent(Val(Head(evs)))
          THEN <<Val(Field(Val(Head(evs)), "data", "content")).s>> ELSE <<>>)
         \o ContentsOf(Tail(evs))

Streamed(i) == Responded(i) /\ Status(i) = 200

\* the runtime was invoked and an exception was caught afterwards: every
\* statement of the try after the call is a call into the runtime
RuntimeRaised(i) == AgentInvoked(i) /\ IsSome(caught[i])

--------------------------------------------------------------------------
SingleUserHi(i) == run_input[i] = Some(<<Msg(Some("user"), Some(TxtHi))>>)

(* C3: for a request with the single user message 'Hi' and a runtime that  *)
(* yields n chunks and does not raise, the body is a started frame, the n  *)
(* content frames and a completed frame, each 'data: ' + JSON + blank line.*)
C3_StartedContentCompleted ==
    \A i \in Inv :
        (SingleUserHi(i) /\ Responded(i) /\ ~RuntimeRaised(i)) =>
            LET evs == ResponseEvents(i)
                n == Len(produced[i])
            IN /\ Status(i) = 200
               /\ AllDecoded(evs)
               /\ Len(evs) = n + 2
               /\ IsStartedEvent(Val(evs[1]))
               /\ \A k \in 2..(n + 1) : IsContentEvent(Val(evs[k]))
               /\ IsCompletedEvent(Val(evs[n + 2]))

--------------------------------------------------------------------------
(* C4: when the agent runtime raises after k chunks were consumed, the     *)
(* response has status 200; its body holds exactly one error frame, the    *)
(* last one, carrying the exception's message; before it come the started  *)
(* frame and the k content frames, unchanged and in order.                 *)
C4_ErrorFrameLast ==
    \A i \in Inv :
        (Responded(i) /\ RuntimeRaised(i)) =>
            LET evs == ResponseEvents(i)
                k == Len(produced[i])
                before == 1 + k + (IF IsSome(final[i]) THEN 1 ELSE 0)
            IN /\ Status(i) = 200
               /\ AllDecoded(evs)
               /\ Len(evs) = before + 1
               /\ Positions(evs, IsErrorEvent) = {Len(evs)}
               /\ Field(Val(evs[Len(evs)]), "data", "message") = Some(JStr(Val(caught[i])))
               /\ IsStartedEvent(Val(evs[1]))
               /\ \A n \in 1..k :
                     /\ IsContentEvent(Val(evs[1 + n]))
                     /\ Field(Val(evs[1 + n]), "data", "content") = Some(JStr(produced[i][n]))
               /\ SubSeq(SplitFrames(Val(response[i]).body), 1, before)
                     = SubSeq(response_chunks[i], 1, before)

C4_Witness ==
    \E i \in Inv :
        /\ Responded(i) /\ RuntimeRaised(i)
        /\ produced[i] = <<TxtTwoLines, TxtHi>>
        /\ final[i] = None
        /\ Contains(Val(caught[i]), NL)

--------------------------------------------------------------------------
(* C5: the content frames of the body carry exactly the chunks the runtime *)
(* produced, in production order, and the body is the concatenation of the *)
(* frames in the order they were appended.                                 *)
C5_ChunksInOrder ==
    \A i \in Inv :
        /\ ContentsOf(ChunkEvents(i)) = produced[i]
        /\ Streamed(i) =>
              /\ ContentsOf(ResponseEvents(i)) = produced[i]
              /\ Val(response[i]).body = Join(response_chunks[i])
              /\ SplitFrames(Val(response[i]).body) = response_chunks[i]

C5_Witness ==
    \E i \in Inv :
        /\ Streamed(i)
        /\ produced[i] = <<TxtTwoLines, TxtHi>>
        /\ IsSome(final[i])

--------------------------------------------------------------------------
AfterCall(i) == pc[i] \in {"streaming", "exiting", "completed", "failed", "responded"}

(* C6: for a validated request with a non-empty message list the runtime   *)
(* is invoked with the content of the last message as the new turn and the *)
(* messages before it, in order, as the history.                           *)
C6_LatestAndHistory ==
    \A i \in Inv :
        (IsSome(messages[i]) /\ Val(messages[i]) # <<>> /\ AfterCall(i)) =>
            LET msgs == Val(messages[i]) IN
            calls[i] = <<RunStreamCall(msgs[Len(msgs)].content,
                                       SubSeq(msgs, 1, Len(msgs) - 1))>>

--------------------------------------------------------------------------
EmptyRequest(i) == run_input[i] = Some(<<>>)

(* C7: for a validated request with an empty message list the selection of *)
(* the latest message does not fail: the runtime is invoked with the empty *)
(* string and an empty history, and the response is a 200 SSE response     *)
(* with no error frame, unless the runtime itself raises.                  *)
C7_EmptyListAccepted ==
    \A i \in Inv :
        (EmptyRequest(i) /\ AfterCall(i)) =>
            /\ calls[i] = <<RunStreamCall(<<>>, <<>>)>>
            /\ IsSome(caught[i]) => Val(caught[i]) \in RuntimeErrors
            /\ Responded(i) =>
                  /\ Status(i) = 200
                  /\ caught[i] = None =>
                        LET evs == ResponseEvents(i) IN
                        /\ Positions(evs, IsErrorEvent) = {}
                        /\ Positions(evs, IsCompletedEvent) = {Len(evs)}

C7_Witness ==
    \E i \in Inv :
        /\ EmptyRequest(i) /\ Responded(i) /\ caught[i] = None
        /\ calls[i] = <<RunStreamCall(<<>>, <<>>)>>
        /\ produced[i] # <<>>

--------------------------------------------------------------------------
AllDicts(ms) == \A n \in 1..Len(ms) : ms[n].dict

KeptRoles == {None, Some("user"), Some("assistant"), Some("system")}

(* C8: _convert_messages returns exactly the input messages whose role is  *)
(* 'user', 'assistant' or 'system', with role and content unchanged and in *)
(* the input's order; a message with another role is dropped without an    *)
(* exception, and a message with no role counts as a user message.         *)
C8_ConvertKeepsRecognized ==
    \A i \in Inv :
        /\ (IsSome(run_input[i]) /\ AllDicts(Val(run_input[i])) /\ pc[i] # "validated")
              => IsSome(messages[i])
        /\ IsSome(messages[i]) =>
              LET in == Val(run_input[i])
                  out == Val(messages[i])
                  kept == {n \in 1..Len(in) : in[n].role \in KeptRoles}
              IN /\ Len(out) = Cardinality(kept)
                 /\ \A n \in kept :
                       LET j == Cardinality({m \in kept : m <= n}) IN
                       /\ out[j].role = (IF in[n].role = None THEN "user"
                                         ELSE Val(in[n].role))
                       /\ out[j].content = (IF in[n].content = None THEN <<>>
                                            ELSE Val(in[n].content))

C8_Witness ==
    \E i \in Inv :
        /\ run_input[i] = Some(<<Msg(Some("tool"), Some(TxtTwoLines)), Msg(None, Some(TxtTwoLines))>>)
        /\ messages[i] = Some(<<Converted("user", TxtTwoLines)>>)

--------------------------------------------------------------------------
CompletedOnceAtEnd(i, evs) ==
    LET comp == Positions(evs, IsCompletedEvent) IN
    /\ Cardinality(comp) <= 1
    /\ IsSome(final[i]) <=> comp # {}
    /\ \A n \in comp :
          /\ pc[i] \notin {"started", "streaming"}
          /\ Field(Val(evs[n]), "data", "content") = Some(JStr(Val(final[i]).data))
          /\ \A m \in (n + 1)..Len(evs) : ~IsContentEvent(Val(evs[m]))
          /\ Cardinality({m \in Positions(evs, IsContentEvent) : m < n}) = Len(produced[i])

(* C9: a frame with status 'completed' is emitted at most once, only after *)
(* every chunk of the stream was consumed and framed; it carries the       *)
(* runtime's final result as its content, and no content frame follows it. *)
C9_CompletedOnceAtEnd ==
    \A i \in Inv :
        /\ CompletedOnceAtEnd(i, ChunkEvents(i))
        /\ Streamed(i) => CompletedOnceAtEnd(i, ResponseEvents(i))

C9_Witness ==
    \E i \in Inv :
        /\ Streamed(i)
        /\ produced[i] = <<TxtHi, TxtHi>>
        /\ IsSome(final[i]) /\ Val(final[i]).data = TxtTwoLines
        /\ Positions(ResponseEvents(i), IsCompletedEvent) = {4}

--------------------------------------------------------------------------
(* C10: a 200 response body holds a completed frame or an error frame, and *)
(* never both.                                                             *)
C10_CompletedXorError ==
    \A i \in Inv :
        Streamed(i) =>
            LET evs == ResponseEvents(i) IN
            (Positions(evs, IsCompletedEvent) # {}) # (Positions(evs, IsErrorEvent) # {})

--------------------------------------------------------------------------
\* an exception occurred after the request was validated: in the conversion
\* of its messages, in the agent call or in the stream
FailedAfterValidation(i) ==
    IsSome(run_input[i]) /\ (IsSome(caught[i]) \/ IsSome(escaped[i]))

ExceptionOf(i) == IF IsSome(caught[i]) THEN Val(caught[i]) ELSE Val(escaped[i])

(* C11: when an exception occurs for a validated request, in the message   *)
(* conversion, the agent call or the stream, the response has status 200   *)
(* and its body holds exactly one error event, with the exception's        *)
(* message.                                                                *)
C11_FailureGivesErrorFrame ==
    \A i \in Inv :
        (Responded(i) /\ FailedAfterValidation(i)) =>
            /\ Status(i) = 200
            /\ LET evs == ResponseEvents(i)
                   errs == Positions(evs, IsErrorEvent)
               IN /\ Cardinality(errs) = 1
                  /\ \A n \in errs :
                        Field(Val(evs[n]), "data", "message") = Some(JStr(ExceptionOf(i)))

--------------------------------------------------------------------------
PostFlaggedBase64(i) ==
    /\ IsSome(event[i])
    /\ Val(event[i]).httpMethod \in PostMethods
    /\ Val(event[i]).isBase64Encoded

\* the flagged body is no base64, or its bytes are no UTF-8, or its text is no JSON
BodyDecodingFails(ev) ==
    LET d == DecodeBody(ev) IN ~d.ok \/ ~JsonLoads(Val(d.v)).ok

(* C12: a POST request flagged isBase64Encoded whose body fails to decode  *)
(* (invalid base64, bytes that are not UTF-8, or text that is not JSON) is *)
(* answered with status 400.                                               *)
C12_Base64FailureIs400 ==
    \A i \in Inv :
        (Responded(i) /\ PostFlaggedBase64(i) /\ BodyDecodingFails(Val(event[i])))
            => Status(i) = 400

--------------------------------------------------------------------------
\* text ends with the tokens of tail
EndsWith(text, tail) ==
    /\ Len(tail) <= Len(text)
    /\ SubSeq(text, Len(text) - Len(tail) + 1, Len(text)) = tail

(* C13: an exception that escapes method checking, body decoding or        *)
(* _stream_agent_response ends the invocation with a response of status    *)
(* 500 whose error message contains the exception's text; an invocation    *)
(* that ended always has a response.                                       *)
C13_EscapedGives500 ==
    \A i \in Inv :
        /\ Responded(i) => IsSome(response[i])
        /\ IsSome(escaped[i]) =>
              /\ Responded(i)
              /\ Status(i) = 500
              /\ IsSome(ErrorMessage(i))
              /\ EndsWith(Val(ErrorMessage(i)), Val(escaped[i]))

C13_Witness ==
    \E i \in Inv :
        /\ escaped[i] = Some(ErrAttrGet)
        /\ IsSome(run_input[i])
        /\ Responded(i) /\ Status(i) = 500
        /\ ErrorMessage(i) = Some(<<"Internal server error: ">> \o ErrAttrGet)

--------------------------------------------------------------------------
\* the state of the request's state machine that a position of the handler is in
Phase(p) ==
    CASE p = "idle" -> "IDLE"
      [] p \in {"received", "decode", "parse"} -> "RECEIVED"
      [] p \in {"validated", "converted"} -> "VALIDATED"
      [] p \in {"started", "streaming", "exiting"} -> "STREAMING"
      [] p = "completed" -> "COMPLETED"
      [] p = "failed" -> "FAILED_IN_STREAM"
      [] p = "responded" -> "RESPONDED"

\* RECEIVED -> REJECTED -> RESPONDED: the rejection and its response are one step
Rejects(i) ==
    /\ Phase(pc[i]) = "RECEIVED" /\ Phase(pc'[i]) = "RESPONDED"
    /\ IsSome(response'[i]) /\ Val(response'[i]).statusCode # 200

PathStep(i) ==
    \/ Phase(pc'[i]) = Phase(pc[i])
    \/ <<Phase(pc[i]), Phase(pc'[i])>> \in
          {<<"IDLE", "RECEIVED">>, <<"RECEIVED", "VALIDATED">>,
           <<"VALIDATED", "STREAMING">>, <<"STREAMING", "COMPLETED">>,
           <<"STREAMING", "FAILED_IN_STREAM">>, <<"COMPLETED", "RESPONDED">>,
           <<"FAILED_IN_STREAM", "RESPONDED">>}
    \/ Rejects(i)

\* the response is set once, on reaching RESPONDED, and never changes
SingleResponse(i) ==
    /\ IsSome(response[i]) => response'[i] = response[i]
    /\ IsSome(response'[i]) <=> pc'[i] = "responded"

(* C14: every invocation eventually reaches RESPONDED with exactly one     *)
(* response, along RECEIVED -> REJECTED -> RESPONDED or RECEIVED ->        *)
(* VALIDATED -> STREAMING -> (COMPLETED or FAILED_IN_STREAM) -> RESPONDED; *)
(* the status is one of 200, 400, 405, 500, and nothing is handed to the   *)
(* host before the response.                                               *)
C14_PathToSingleResponse ==
    /\ [](\A i \in Inv :
            /\ IsSome(response[i]) <=> Responded(i)
            /\ Responded(i) => Status(i) \in {200, 400, 405, 500})
    /\ [][\A i \in Inv : PathStep(i) /\ SingleResponse(i)]_vars
    /\ \A i \in Inv : (pc[i] # "idle") ~> Responded(i)

--------------------------------------------------------------------------
EventTypes == {"agent_response", "error"}

TypedEvents(evs) ==
    \A n \in 1..Len(evs) :
        /\ IsSome(evs[n])
        /\ \E t \in EventTypes : TypeIs(Val(evs[n]), t)

(* C15: every SSE frame the handler buffers, and every frame of a 200      *)
(* response body, decodes from JSON to a mapping whose 'type' is           *)
(* 'agent_response' or 'error'; the body splits into exactly the buffered  *)
(* frames.                                                                 *)
C15_FramesDecodeTyped ==
    \A i \in Inv :
        /\ TypedEvents(ChunkEvents(i))
        /\ Streamed(i) =>
              /\ TypedEvents(ResponseEvents(i))
              /\ Len(ResponseEvents(i)) = Len(response_chunks[i])

C15_Witness ==
    \E i \in Inv :
        /\ Streamed(i)
        /\ produced[i] = <<TxtTwoLines, TxtHi>>
        /\ IsSome(final[i]) /\ Val(final[i]).data = TxtTwoLines
        /\ caught[i] = Some(<<"bad ", QUOTE, "key", QUOTE, NL, NL>>)
        /\ Len(ResponseEvents(i)) = 5

--------------------------------------------------------------------------
HeaderValues(r, name) == {h[2] : h \in {g \in r.headers : g[1] = name}}

(* C16: every response, with status 200, 400, 405 or 500, carries the      *)
(* header Access-Control-Allow-Origin with the value '*'.                  *)
C16_CorsOnEveryResponse ==
    \A i \in Inv :
        IsSome(response[i]) =>
            HeaderValues(Val(response[i]), "Access-Control-Allow-Origin") = {"*"}

C16_Witness ==
    \E i \in Inv :
        /\ Responded(i) /\ Status(i) = 405
        /\ <<"Access-Control-Allow-Origin", "*">> \in Val(response[i]).headers

--------------------------------------------------------------------------
HasSseHeaders(r) ==
    /\ HeaderValues(r, "Content-Type") = {"text/event-stream"}
    /\ HeaderValues(r, "Cache-Control") = {"no-cache"}
    /\ HeaderValues(r, "Connection") = {"keep-alive"}

\* the body is a JSON object whose only key is 'error'
IsErrorObject(b) ==
    LET j == DecodeJson(b) IN
    /\ IsSome(j)
    /\ Val(j).k = "obj"
    /\ Len(Val(j).m) = 1
    /\ Val(j).m[1].key = "error"

HasNoFrame(b) ==
    /\ ~Contains(b, "data: ")
    /\ \A n \in 1..Len(BodyEvents(b)) : BodyEvents(b)[n] = None

(* C17: a response has the SSE headers (Content-Type text/event-stream,    *)
(* Cache-Control no-cache, Connection keep-alive) exactly when its status  *)
(* is 200; a response with status 400, 405 or 500 has Content-Type         *)
(* application/json and a body that is a JSON object with the single key   *)
(* 'error' and holds no SSE frame.                                         *)
C17_SseHeadersIff200 ==
    \A i \in Inv :
        IsSome(response[i]) =>
            LET r == Val(response[i]) IN
            /\ HasSseHeaders(r) <=> r.statusCode = 200
            /\ r.statusCode # 200 =>
                  /\ r.statusCode \in {400, 405, 500}
                  /\ HeaderValues(r, "Content-Type") = {"application/json"}
                  /\ HeaderValues(r, "Cache-Control") = {}
                  /\ HeaderValues(r, "Connection") = {}
                  /\ IsErrorObject(r.body)
                  /\ HasNoFrame(r.body)

C17_Witness ==
    \E i \in Inv :
        /\ Responded(i) /\ Status(i) = 400
        /\ IsErrorObject(Val(response[i]).body)
        /\ HeaderValues(Val(response[i]), "Content-Type") = {"application/json"}
        /\ ~HasSseHeaders(Val(response[i]))

--------------------------------------------------------------------------
\* the invocation failed: in the stream, internally, or with a client error
Failed(i) ==
    \/ IsSome(caught[i])
    \/ IsSome(escaped[i])
    \/ IsSome(response[i]) /\ Status(i) # 200

ContentFrames(chunks) ==
    Cardinality({n \in 1..Len(chunks) :
                    /\ IsSome(FrameEvent(chunks[n]))
                    /\ IsContentEvent(Val(FrameEvent(chunks[n])))})

(* C18: within one invocation the agent runtime is started at most once,   *)
(* and once the invocation has failed no step calls the runtime, takes a   *)
(* chunk from it or buffers a content frame.                               *)
C18_NoRetries ==
    /\ [](\A i \in Inv : Len(calls[i]) <= 1)
    /\ [][\A i \in Inv :
             Failed(i) =>
                 /\ calls'[i] = calls[i]
                 /\ produced'[i] = produced[i]
                 /\ final'[i] = final[i]
                 /\ ContentFrames(response_chunks'[i]) = ContentFrames(response_chunks[i])]_vars

C18_Witness ==
    \E i \in Inv :
        /\ Responded(i)
        /\ Len(calls[i]) = 1
        /\ IsSome(caught[i])
        /\ Len(produced[i]) = 1
        /\ ContentFrames(response_chunks[i]) = 1

--------------------------------------------------------------------------
(* C20: the body of a 200 response is never empty and its first frame is   *)
(* the started frame, also when the runtime fails before any chunk.        *)
C20_StartedFrameFirst ==
    \A i \in Inv :
        Streamed(i) =>
            LET evs == ResponseEvents(i) IN
            /\ Val(response[i]).body # <<>>
            /\ evs # <<>>
            /\ IsSome(evs[1])
            /\ IsStartedEvent(Val(evs[1]))
            /\ Positions(evs, IsStartedEvent) = {1}

C20_Witness ==
    \E i \in Inv :
        /\ Streamed(i)
        /\ AgentInvoked(i)
        /\ produced[i] = <<>>
        /\ IsSome(caught[i]) /\ final[i] = None
        /\ Len(ResponseEvents(i)) = 2

--------------------------------------------------------------------------
(* What invocation i returns when it runs alone: a function of its own     *)
(* request and of what the runtime handed to it.                           *)

SoloFrames(i) ==
    <<_format_sse_event(StartedEvent)>>
    \o [n \in 1..Len(produced[i]) |->
           _format_sse_event(ChunkEvent(produced[i][n], TimestampOf(Val(rt[i]))))]
    \o (IF IsSome(final[i])
        THEN <<_format_sse_event(FinalEvent(Val(final[i]).data, Val(final[i]).cost))>>
        ELSE <<>>)
    \o (IF IsSome(caught[i]) THEN <<_format_sse_event(ErrorEvent(Val(caught[i])))>> ELSE <<>>)

SoloResponse(i) ==
    LET ev == Val(event[i])
        d == DecodeBody(ev)
        r == ParseRunInput(Val(d.v))
    IN IF MethodRejected(ev) THEN _error_response(405, <<"Method not allowed">>)
       ELSE IF ~d.ok THEN InternalError(d.err)
       ELSE IF ~r.ok THEN _error_response(400, <<"Invalid request body: ">> \o r.err)
       ELSE IF ~ConvertRaises(Val(r.v)).ok THEN InternalError(ConvertRaises(Val(r.v)).err)
       ELSE StreamingResponse(SoloFrames(i))

(* C19: when two invocations of the same handler interleave, each response *)
(* is the response its own request and its own runtime outputs give when   *)
(* run alone, and each 200 body carries exactly the chunks produced for    *)
(* its own invocation, in their order.                                     *)
C19_InvocationsIndependent ==
    \A i \in Inv :
        Responded(i) =>
            /\ Val(response[i]) = SoloResponse(i)
            /\ Status(i) = 200 =>
                  /\ SplitFrames(Val(response[i]).body) = SoloFrames(i)
                  /\ ContentsOf(ResponseEvents(i)) = produced[i]

C19_Witness ==
    /\ Streamed(1) /\ Streamed(2)
    /\ produced[1] = <<TxtHi, TxtHi>>
    /\ produced[2] = <<TxtTwoLines>>
    /\ IsSome(final[1]) /\ IsSome(caught[2])
    /\ Val(response[1]).body # Val(response[2]).body

--------------------------------------------------------------------------
NoMethodKey(i) == IsSome(event[i]) /\ Val(event[i]).httpMethod = None
NoBodyKey(i) == IsSome(event[i]) /\ Val(event[i]).body = None

\* the handler is past the method check and not rejected by it
PastMethodCheck(i) == pc[i] # "received" /\ (Responded(i) => Status(i) # 405)

(* C21: an envelope with no httpMethod key is handled as a POST: it is     *)
(* never answered with 405 and goes on to body parsing; an envelope with   *)
(* no body key is parsed as the empty JSON object '{}'.                    *)
C21_MissingKeysDefault ==
    \A i \in Inv :
        /\ NoMethodKey(i) => (Responded(i) => Status(i) # 405)
        /\ (NoMethodKey(i) /\ NoBodyKey(i) /\ PastMethodCheck(i) /\ pc[i] # "decode") =>
              /\ escaped[i] = None
              /\ body[i] = Some(Body("text", PEmptyObj))

--------------------------------------------------------------------------
(* Legacy chat handlers *)

\* positions of the user messages of the request
UserPositions(ms) == {n \in 1..Len(ms) : ms[n].dict /\ ms[n].role = Some("user")}

Max(S) == CHOOSE n \in S : \A m \in S : m <= n

\* the content of the latest user message, when it is there and not empty
LatestUserContent(ms) ==
    IF UserPositions(ms) = {} THEN None
    ELSE LET c == ms[Max(UserPositions(ms))].content IN
         IF c = None \/ c = Some(<<>>) THEN None ELSE c

(* C22: the agent of a legacy chat handler is run with the content of the  *)
(* latest message whose role is 'user'; when there is no user message, or  *)
(* the latest one has empty or missing content, it is run with the         *)
(* handler's default greeting; an earlier user message is never used.      *)
C22_LatestUserOrGreeting ==
    agent_runs # <<>> =>
        LET ms == Val(request_messages)
            latest == LatestUserContent(ms)
        IN /\ Len(agent_runs) = 1
           /\ IsSome(latest) => agent_runs[1] = Val(latest)
           /\ latest = None => agent_runs[1] = DefaultGreeting(Val(module))

C22_Witness ==
    /\ agent_runs = <<DefaultGreeting("weather_chat")>>
    /\ request_messages = Some(<<Msg(Some("user"), Some(TxtHi)), Msg(Some("user"), Some(<<>>))>>)

--------------------------------------------------------------------------
(* C23: a do_POST call of a legacy chat handler sends exactly one status:  *)
(* 400 when the body is not valid JSON, and the agent is then not run; 500 *)
(* when any other exception occurs; 200 otherwise; and a 200 is never      *)
(* followed by a 500.                                                      *)
C23_OneStatus ==
    /\ Len(sent) <= 1
    /\ lpc = "done" =>
          /\ Len(sent) = 1
          /\ (sent[1] = 400) <=> ~Val(request).payload.json
          /\ sent[1] = 400 => agent_runs = <<>>
          /\ sent[1] \in {200, 400, 500}
    /\ \A n \in 1..Len(sent) : \A k \in (n + 1)..Len(sent) : ~(sent[n] = 200 /\ sent[k] = 500)

--------------------------------------------------------------------------
(* Progress events of start_long_running_task *)

(* C24: for every task type the overall_progress values of the yielded     *)
(* events start at 0, never decrease, stay within 0..100, and the last     *)
(* event, after which the generator ends, carries 100.                     *)
C24_OverallProgressMonotone ==
    /\ \A n \in 1..Len(yielded) : yielded[n].overall_progress \in 0..100
    /\ yielded # <<>> => yielded[1].overall_progress = 0
    /\ \A n \in 1..(Len(yielded) - 1) :
          yielded[n].overall_progress <= yielded[n + 1].overall_progress
    /\ tpc = "done" => /\ yielded # <<>>
                       /\ yielded[Len(yielded)].overall_progress = 100
    /\ Len(yielded) <= Len(steps) * (Len(ProgressValues) + 1) + 1

C24_Witness ==
    /\ tpc = "done"
    /\ task_type = Some(<<"Deploy", " the ", "data">>)
    /\ Len(yielded) = 26
    /\ yielded[16].overall_progress = 60
    /\ yielded[26].overall_progress = 100

--------------------------------------------------------------------------
StatusRank(status) ==
    CASE status = "pending" -> 0
      [] status = "in_progress" -> 1
      [] status = "completed" -> 2

\* the steps of one event: at most one in progress, completed before it,
\* pending after it
Staged(ss) ==
    LET cur == {j \in 1..Len(ss) : ss[j].status = "in_progress"} IN
    /\ Cardinality(cur) <= 1
    /\ \A j \in 1..Len(ss) : ss[j].status \in {"pending", "in_progress", "completed"}
    /\ \A c \in cur :
          /\ \A j \in 1..(c - 1) : ss[j].status = "completed" /\ ss[j].progress = 100
          /\ \A j \in (c + 1)..Len(ss) : ss[j].status = "pending" /\ ss[j].progress = 0

AllCompleted(ss) == \A j \in 1..Len(ss) : ss[j].status = "completed" /\ ss[j].progress = 100

(* C25: in every yielded event at most one step is in progress, the steps  *)
(* before it are completed with progress 100 and the steps after it are    *)
(* pending with progress 0; from one event to the next a step's status     *)
(* only moves forward along pending, in_progress, completed; and in the    *)
(* final event every step is completed with progress 100.                  *)
C25_StepsStaged ==
    /\ \A n \in 1..Len(yielded) : Staged(yielded[n].steps)
    /\ \A n \in 1..(Len(yielded) - 1) :
          \A j \in 1..Len(yielded[n].steps) :
              LET a == StatusRank(yielded[n].steps[j].status)
                  b == StatusRank(yielded[n + 1].steps[j].status)
              IN a <= b /\ b <= a + 1
    /\ tpc = "done" => AllCompleted(yielded[Len(yielded)].steps)

C25_Witness ==
    /\ tpc = "done"
    /\ Len(yielded) = 26
    /\ yielded[12].steps[3].status = "in_progress"
    /\ yielded[12].steps[3].progress = 25
    /\ yielded[12].steps[2].status = "completed"
    /\ yielded[12].steps[4].status = "pending"
    /\ AllCompleted(yielded[26].steps)

--------------------------------------------------------------------------
(* Events of write_document *)

LastEvent(w) == doc_events[w][Len(doc_events[w])]

\* the call has yielded its last event, the one with 'complete'
ReachedFinal(w) == doc_events[w] # <<>> /\ LastEvent(w).complete

(* C26: a call of write_document that runs to its last event with no other *)
(* writer sets state.document to its argument and raises state.version by  *)
(* exactly 1, and the version of its first event equals the version of its *)
(* last event; before the last event, also when the consumer abandons the  *)
(* generator, state.document and state.version are as they were.           *)
C26_WriteCommitsAtEnd ==
    \A w \in Writers :
        IsSome(at_call[w]) =>
            IF ReachedFinal(w)
            THEN /\ state = [document |-> Val(document[w]),
                             version |-> Val(at_call[w]).version + 1]
                 /\ doc_events[w][1].name = "document_diffs"
                 /\ doc_events[w][1].version = Some(state.version)
                 /\ LastEvent(w).version = Some(state.version)
            ELSE state = Val(at_call[w])

C26_Witness ==
    /\ wpc[1] = "done"
    /\ writes[1] = 2
    /\ Val(at_call[1]) = [document |-> <<"a", "b">>, version |-> 1]
    /\ state = [document |-> <<"a">>, version |-> 2]

--------------------------------------------------------------------------
(* C27: when the calls of two writers on the shared state interleave, no   *)
(* version increment is lost: the version is the initial version plus the  *)
(* number of calls that ran to their last event; and for each call the     *)
(* version in its 'document_diffs' event equals the version in its own     *)
(* last event.                                                             *)
C27_VersionsAgreeInterleaved ==
    /\ state.version = completions
    /\ \A w \in Writers :
          ReachedFinal(w) => doc_events[w][1].version = LastEvent(w).version

--------------------------------------------------------------------------
IsTyping(e) == e.is_typing

TypingEvents(w) == SelectSeq(doc_events[w], IsTyping)

(* C28: a call on an empty document yields one typing event for each       *)
(* character of the new content, the k-th of them carrying the first k     *)
(* characters, so the last of them carries the document of the last event; *)
(* a call on a document that is not empty yields no typing event.          *)
C28_TypingSpellsContent ==
    \A w \in Writers :
        IsSome(current_doc[w]) =>
            IF Val(current_doc[w]) = <<>>
            THEN /\ \A k \in 1..Len(TypingEvents(w)) :
                       TypingEvents(w)[k].document = Some(SubSeq(Val(document[w]), 1, k))
                 /\ ReachedFinal(w) =>
                       /\ Len(TypingEvents(w)) = Len(Val(document[w]))
                       /\ TypingEvents(w) # <<>> =>
                             TypingEvents(w)[Len(TypingEvents(w))].document
                                 = LastEvent(w).document
            ELSE TypingEvents(w) = <<>>

====
